---- MODULE Spec2Model ----
(***************************************************************************)
(* A model of cb_heartbeat.go: heartbeaters that share one Couchbase       *)
(* bucket.  Each heartbeater can run sender goroutines (upsert a heartbeat *)
(* doc and a heartbeat_timeout doc with a TTL) and checker goroutines      *)
(* (enumerate heartbeat docs through the cbgt/heartbeats view, look up the *)
(* timeout doc of every other node, call back and delete when it is gone). *)
(*                                                                         *)
(* Every bucket operation (Set, Get, Delete, ViewCustom) is one atomic     *)
(* step, so the goroutines interleave exactly at the bucket calls.  Real   *)
(* time is abstracted: a ticker may fire whenever its channel is empty,    *)
(* and a document written with a TTL > 0 may expire at any later moment.   *)
(* A document written with TTL 0 never expires.                            *)
(***************************************************************************)
EXTENDS Integers, Sequences, FiniteSets, TLC

(* ------------------------------ bounds -------------------------------- *)

\* What the environment does over a whole run, all heartbeaters together:
\* Start* calls, Stop* calls and failing bucket operations.  The goroutines'
\* own steps, the tickers and the expiry of documents are not bounded.
MaxCalls == 3
\* the callback counter saturates here
MaxCount == 2

(* --------------------------- configuration ---------------------------- *)

docTypeHeartbeat == "heartbeat"
docTypeHeartbeatTimeout == "heartbeat_timeout"

\* The heartbeaters built by NewCouchbaseHeartbeater on the shared bucket:
\* two nodes of the group with key prefix g1/ and one node of the group
\* with key prefix g2/ that runs on the same machine as h1 (same node uuid).
Heartbeaters == {"h1", "h2", "h3"}

keyPrefix(h) ==
    CASE h = "h1" -> "g1/"
      [] h = "h2" -> "g1/"
      [] OTHER    -> "g2/"

nodeUuid(h) ==
    CASE h = "h1" -> "A"
      [] h = "h2" -> "B"
      [] OTHER    -> "A"

\* the intervalMs arguments a caller passes to StartSendingHeartbeats: a
\* sub-second one and a whole second
Intervals == {500, 1000}

\* more of them, for the sender on its own
SendIntervals == {1, 999, 1500, 2000}

(* ----------------------------- doc keys ------------------------------- *)

heartbeatTimeoutDocId(h, uuid) == keyPrefix(h) \o "heartbeat_timeout:" \o uuid

heartbeatDocId(h, uuid) == keyPrefix(h) \o "heartbeat:" \o uuid

\* the key of a heartbeat doc that carries no node uuid
invalidDocId == heartbeatDocId("h1", "")

\* Every key the bucket can hold, in the byte order of the keys, which is the
\* order in which the view returns its rows (it emits meta.id as the key).
SortedKeys ==
    << invalidDocId,
       heartbeatDocId("h1", nodeUuid("h1")),
       heartbeatDocId("h2", nodeUuid("h2")),
       heartbeatTimeoutDocId("h1", nodeUuid("h1")),
       heartbeatTimeoutDocId("h2", nodeUuid("h2")),
       heartbeatDocId("h3", nodeUuid("h3")),
       heartbeatTimeoutDocId("h3", nodeUuid("h3")) >>

(* ------------------------------ bucket -------------------------------- *)

\* a bucket with no documents
EmptyBucket == [k \in {} |-> [type |-> "", node_uuid |-> "", ttl |-> 0]]

\* bucket.Set(key, ttl, doc): create or replace
BucketSet(s, key, ttl, doc) ==
    [k \in DOMAIN s \cup {key} |->
        IF k = key
        THEN [type |-> doc.type, node_uuid |-> doc.node_uuid, ttl |-> ttl]
        ELSE s[k]]

\* bucket.Get(key, &doc): found, or a KeyNoEnt error
BucketHas(s, key) == key \in DOMAIN s

\* bucket.Delete(key)
BucketDelete(s, key) == [k \in DOMAIN s \ {key} |-> s[k]]

\* The map function of the cbgt/heartbeats view over the documents whose
\* keys are ks: one row per document of type heartbeat, the row's value is
\* the document's node_uuid; viewQueryHeartbeatDocs keeps the value only.
RECURSIVE ViewRows(_, _)
ViewRows(s, ks) ==
    IF ks = << >>
    THEN << >>
    ELSE LET k == Head(ks)
             rest == ViewRows(s, Tail(ks))
         IN  IF k \in DOMAIN s /\ s[k].type = docTypeHeartbeat
             THEN << s[k].node_uuid >> \o rest
             ELSE rest

(* ----------------------------- the state ------------------------------ *)

VARIABLES
    store,          \* the bucket: key -> [type, node_uuid, ttl]
    ddoc,           \* the design doc cbgt with the heartbeats view is installed
    sendCloser,     \* h.heartbeatSendCloser: "open" or "closed"
    checkCloser,    \* h.heartbeatCheckCloser: "open" or "closed"
    senders,        \* the sender goroutines of each heartbeater
    checkers,       \* the checker goroutines of each heartbeater
    stopCalls,      \* Stop* calls made so far, per heartbeater and kind
    panics,         \* the kinds of Stop* call that panicked, per heartbeater
    errs,           \* bucket operations that failed so far
    healthy,        \* the node's sender has run as meant: no write of it failed, no doc of
                    \* it lapsed while it was sending, no tick began after its stop
    cleaned,        \* node uuids whose heartbeat doc a checker deleted since their last send
    total           \* callbacks per checking heartbeater and node uuid, saturating

vars == << store, ddoc, sendCloser, checkCloser, senders, checkers,
           stopCalls, panics, errs, healthy, cleaned, total >>

NodeUuids == { nodeUuid(h) : h \in Heartbeaters }

Init ==
    /\ store = EmptyBucket
    /\ ddoc = FALSE
    /\ sendCloser = [h \in Heartbeaters |-> "open"]
    /\ checkCloser = [h \in Heartbeaters |-> "open"]
    /\ senders = [h \in Heartbeaters |-> << >>]
    /\ checkers = [h \in Heartbeaters |-> << >>]
    /\ stopCalls = [h \in Heartbeaters |-> [send |-> 0, check |-> 0]]
    /\ panics = [h \in Heartbeaters |-> {}]
    /\ errs = 0
    /\ healthy = [h \in Heartbeaters |-> TRUE]
    /\ cleaned = {}
    /\ total = [h \in Heartbeaters |-> [u \in NodeUuids |-> 0]]

\* goroutines started so far
NumSenders == Len(senders["h1"]) + Len(senders["h2"]) + Len(senders["h3"])
NumCheckers == Len(checkers["h1"]) + Len(checkers["h2"]) + Len(checkers["h3"])
\* Stop* calls made so far
NumStopCalls ==
    stopCalls["h1"].send + stopCalls["h1"].check + stopCalls["h2"].send
    + stopCalls["h2"].check + stopCalls["h3"].send + stopCalls["h3"].check
\* what the environment has done so far
Used == NumSenders + NumCheckers + NumStopCalls + errs

\* the checker goroutines' snapshots forget uuid: its node has sent again
Forget(cs, uuid) ==
    [h \in Heartbeaters |->
        [i \in DOMAIN cs[h] |-> [cs[h][i] EXCEPT !.clean0 = @ \ {uuid}]]]

(* ------------------------------ sender -------------------------------- *)

\* expireTimeSeconds of upsertHeartbeatTimeoutDoc: Go's integer division
expireTimeSeconds(intervalMs) == (intervalMs \div 1000) * 2

StartSendingHeartbeats(h, intervalMs) ==
    /\ Used < MaxCalls
    /\ senders' = [senders EXCEPT ![h] =
           Append(@, [pc |-> "select", tick |-> FALSE, intervalMs |-> intervalMs,
                      err |-> "nil"])]
    /\ UNCHANGED << store, ddoc, sendCloser, checkCloser, checkers,
                    stopCalls, panics, errs, healthy, cleaned, total >>

\* The sender's time.Ticker delivers a tick into its channel of capacity 1.
\* The goroutine reads the channel only at its select, so a tick that arrives
\* while it is busy is delivered here once it is back at the select; the
\* ticker is stopped when the goroutine returns.
SenderTickerFire(h, i) ==
    /\ senders[h][i].pc = "select"
    /\ ~ senders[h][i].tick
    /\ senders' = [senders EXCEPT ![h][i].tick = TRUE]
    /\ UNCHANGED << store, ddoc, sendCloser, checkCloser, checkers,
                    stopCalls, panics, errs, healthy, cleaned, total >>

\* a select that never takes the closer case
SenderSelectCloser_Deaf(h, i) ==
    /\ FALSE
    /\ UNCHANGED vars

\* select: case <-h.heartbeatSendCloser
SenderSelectCloser(h, i) ==
    /\ senders[h][i].pc = "select"
    /\ sendCloser[h] = "closed"
    /\ senders' = [senders EXCEPT ![h][i].pc = "done"]
    /\ UNCHANGED << store, ddoc, sendCloser, checkCloser, checkers,
                    stopCalls, panics, errs, healthy, cleaned, total >>

\* select: case <-ticker.C; Go picks among the ready cases at random, so
\* this case can be taken while the closer is closed too
SenderSelectTick(h, i) ==
    /\ senders[h][i].pc = "select"
    /\ senders[h][i].tick
    /\ senders' = [senders EXCEPT ![h][i].tick = FALSE, ![h][i].pc = "upsertHeartbeatDoc"]
    /\ healthy' = [healthy EXCEPT ![h] = @ /\ sendCloser[h] = "open"]
    /\ UNCHANGED << store, ddoc, sendCloser, checkCloser, checkers,
                    stopCalls, panics, errs, cleaned, total >>

\* sendHeartbeat, first write; an error ends the tick: sendHeartbeat returns
\* it and the goroutine logs it (err is what the last sendHeartbeat returned)
upsertHeartbeatDoc(h, i) ==
    /\ senders[h][i].pc = "upsertHeartbeatDoc"
    /\ \/ /\ store' = BucketSet(store, heartbeatDocId(h, nodeUuid(h)), 0,
                        [type |-> docTypeHeartbeat, node_uuid |-> nodeUuid(h)])
          /\ senders' = [senders EXCEPT ![h][i].pc = "upsertHeartbeatTimeoutDoc"]
          /\ UNCHANGED << errs, healthy >>
       \/ /\ Used < MaxCalls
          /\ errs' = errs + 1
          /\ healthy' = [healthy EXCEPT ![h] = FALSE]
          /\ senders' = [senders EXCEPT ![h][i].pc = "select",
                                        ![h][i].err = "upsertHeartbeatDoc"]
          /\ UNCHANGED store
    /\ cleaned' = cleaned \ {nodeUuid(h)}
    /\ checkers' = Forget(checkers, nodeUuid(h))
    /\ UNCHANGED << ddoc, sendCloser, checkCloser, stopCalls, panics, total >>

\* sendHeartbeat, second write
upsertHeartbeatTimeoutDoc(h, i) ==
    /\ senders[h][i].pc = "upsertHeartbeatTimeoutDoc"
    /\ \/ /\ store' = BucketSet(store, heartbeatTimeoutDocId(h, nodeUuid(h)),
                        expireTimeSeconds(senders[h][i].intervalMs),
                        [type |-> docTypeHeartbeatTimeout, node_uuid |-> nodeUuid(h)])
          /\ senders' = [senders EXCEPT ![h][i].pc = "select", ![h][i].err = "nil"]
          /\ UNCHANGED << errs, healthy >>
       \/ /\ Used < MaxCalls
          /\ errs' = errs + 1
          /\ healthy' = [healthy EXCEPT ![h] = FALSE]
          /\ senders' = [senders EXCEPT ![h][i].pc = "select",
                                        ![h][i].err = "upsertHeartbeatTimeoutDoc"]
          /\ UNCHANGED store
    /\ cleaned' = cleaned \ {nodeUuid(h)}
    /\ checkers' = Forget(checkers, nodeUuid(h))
    /\ UNCHANGED << ddoc, sendCloser, checkCloser, stopCalls, panics, total >>

\* a stop that closes the channel once and ignores every later call
StopSendingHeartbeats_Once(h) ==
    /\ Used < MaxCalls
    /\ stopCalls' = [stopCalls EXCEPT ![h].send = @ + 1]
    /\ sendCloser' = [sendCloser EXCEPT ![h] = "closed"]
    /\ UNCHANGED << store, ddoc, checkCloser, senders, checkers, panics,
                    errs, healthy, cleaned, total >>

\* close(h.heartbeatSendCloser); closing a closed channel panics
StopSendingHeartbeats(h) ==
    /\ Used < MaxCalls
    /\ stopCalls' = [stopCalls EXCEPT ![h].send = @ + 1]
    /\ IF sendCloser[h] = "open"
       THEN /\ sendCloser' = [sendCloser EXCEPT ![h] = "closed"]
            /\ UNCHANGED panics
       ELSE /\ panics' = [panics EXCEPT ![h] = @ \cup {"send"}]
            /\ UNCHANGED sendCloser
    /\ UNCHANGED << store, ddoc, checkCloser, senders, checkers, errs,
                    healthy, cleaned, total >>

(* ------------------------------ checker ------------------------------- *)

\* a start that goes on to the goroutine when addHeartbeatCheckView has failed
StartCheckingHeartbeats_Anyway(h) ==
    /\ Used < MaxCalls
    /\ \/ ddoc' = TRUE /\ UNCHANGED errs
       \/ Used + 1 < MaxCalls /\ errs' = errs + 1 /\ UNCHANGED ddoc
    /\ checkers' = [checkers EXCEPT ![h] =
           Append(@, [pc |-> "select", tick |-> FALSE, docs |-> << >>,
                      idx |-> 0, fired |-> << >>, clean0 |-> {},
                      err |-> "nil", logged |-> {}])]
    /\ UNCHANGED << store, sendCloser, checkCloser, senders,
                    stopCalls, panics, healthy, cleaned, total >>

\* StartCheckingHeartbeats: addHeartbeatCheckView first; its error is
\* returned and no goroutine is started
StartCheckingHeartbeats(h) ==
    /\ Used < MaxCalls
    /\ \/ /\ ddoc' = TRUE
          /\ checkers' = [checkers EXCEPT ![h] =
                 Append(@, [pc |-> "select", tick |-> FALSE, docs |-> << >>,
                            idx |-> 0, fired |-> << >>, clean0 |-> {},
                            err |-> "nil", logged |-> {}])]
          /\ UNCHANGED errs
       \/ /\ Used < MaxCalls
          /\ errs' = errs + 1
          /\ UNCHANGED << ddoc, checkers >>
    /\ UNCHANGED << store, sendCloser, checkCloser, senders,
                    stopCalls, panics, healthy, cleaned, total >>

\* the checker's time.Ticker, as the sender's
CheckerTickerFire(h, i) ==
    /\ checkers[h][i].pc = "select"
    /\ ~ checkers[h][i].tick
    /\ checkers' = [checkers EXCEPT ![h][i].tick = TRUE]
    /\ UNCHANGED << store, ddoc, sendCloser, checkCloser, senders,
                    stopCalls, panics, errs, healthy, cleaned, total >>

\* select: case <-h.heartbeatCheckCloser
CheckerSelectCloser(h, i) ==
    /\ checkers[h][i].pc = "select"
    /\ checkCloser[h] = "closed"
    /\ checkers' = [checkers EXCEPT ![h][i].pc = "done"]
    /\ UNCHANGED << store, ddoc, sendCloser, checkCloser, senders,
                    stopCalls, panics, errs, healthy, cleaned, total >>

\* select: case <-ticker.C
CheckerSelectTick(h, i) ==
    /\ checkers[h][i].pc = "select"
    /\ checkers[h][i].tick
    /\ checkers' = [checkers EXCEPT ![h][i].tick = FALSE,
                                    ![h][i].pc = "viewQueryHeartbeatDocs"]
    /\ UNCHANGED << store, ddoc, sendCloser, checkCloser, senders,
                    stopCalls, panics, errs, healthy, cleaned, total >>

\* a goroutine that returns when checkStaleHeartbeats has returned an error
ReturnErr_Exit(c, err) ==
    [c EXCEPT !.pc = IF err = "nil" THEN "select" ELSE "done",
              !.docs = << >>, !.idx = 0, !.err = err]

\* checkStaleHeartbeats returns err: its locals are gone, the goroutine logs
\* the error if there is one and is back at its select (err is what the last
\* checkStaleHeartbeats returned)
ReturnErr(c, err) == [c EXCEPT !.pc = "select", !.docs = << >>, !.idx = 0, !.err = err]

\* checkStaleHeartbeats returns nil
Return(c) == ReturnErr(c, "nil")

\* the range loop moves on to the row after idx, or is out of rows and
\* checkStaleHeartbeats returns nil
NextRow(c) ==
    IF c.idx < Len(c.docs)
    THEN [c EXCEPT !.pc = "loop", !.idx = c.idx + 1]
    ELSE Return(c)

\* checkStaleHeartbeats, the view query; an error ends the cycle
viewQueryHeartbeatDocs(h, i) ==
    LET c == [checkers[h][i] EXCEPT !.fired = << >>, !.clean0 = cleaned]
    IN  /\ c.pc = "viewQueryHeartbeatDocs"
        /\ \/ /\ ddoc
              /\ checkers' = [checkers EXCEPT ![h][i] =
                     NextRow([c EXCEPT !.docs = ViewRows(store, SortedKeys)])]
              /\ UNCHANGED errs
           \/ /\ Used < MaxCalls
              /\ errs' = errs + 1
              /\ checkers' = [checkers EXCEPT ![h][i] =
                     ReturnErr(c, "viewQueryHeartbeatDocs")]
        /\ UNCHANGED << store, ddoc, sendCloser, checkCloser, senders,
                        stopCalls, panics, healthy, cleaned, total >>

\* a loop without the test for ourselves
IsSelf_Never(h, uuid) == FALSE

\* heartbeatDoc.NodeUUID == h.nodeUuid: that's us
IsSelf(h, uuid) == uuid = nodeUuid(h)

\* a loop without the test for invalid docs
IsInvalid_Never(uuid) == FALSE

\* heartbeatDoc.NodeUUID == "": an invalid heartbeat doc
IsInvalid(uuid) == uuid = ""

\* the key whose absence makes the node of this row stale
LookupKey(h, uuid) == heartbeatTimeoutDocId(h, uuid)

\* a cleanup that deletes the timeout doc
CleanupKey_Timeout(h, uuid) == heartbeatTimeoutDocId(h, uuid)

\* the key deleted after the callback
CleanupKey(h, uuid) == heartbeatDocId(h, uuid)

Bump(n) == IF n < MaxCount THEN n + 1 ELSE n

\* a loop that goes on with the next row when the Get fails
CheckRow_Continue(h, i) ==
    LET c == checkers[h][i]
        uuid == c.docs[c.idx]
    IN  /\ c.pc = "loop"
        /\ \/ /\ IsSelf(h, uuid) \/ IsInvalid(uuid) \/ BucketHas(store, LookupKey(h, uuid))
              /\ checkers' = [checkers EXCEPT ![h][i] = NextRow(c)]
              /\ UNCHANGED << errs, total >>
           \/ /\ ~ IsSelf(h, uuid)
              /\ ~ IsInvalid(uuid)
              /\ ~ BucketHas(store, LookupKey(h, uuid))
              /\ checkers' = [checkers EXCEPT ![h][i] =
                     [c EXCEPT !.pc = "callback", !.fired = Append(@, uuid)]]
              /\ total' = [total EXCEPT ![h][uuid] = Bump(@)]
              /\ UNCHANGED errs
           \/ /\ ~ IsSelf(h, uuid)
              /\ ~ IsInvalid(uuid)
              /\ Used < MaxCalls
              /\ errs' = errs + 1
              /\ checkers' = [checkers EXCEPT ![h][i] = NextRow(c)]
              /\ UNCHANGED total
        /\ UNCHANGED << store, ddoc, sendCloser, checkCloser, senders,
                        stopCalls, panics, healthy, cleaned >>

\* one iteration of the loop of checkStaleHeartbeats up to the callback:
\* skip ourselves and invalid docs, else Get the timeout doc; when it is
\* not there, call handler.StaleHeartBeatDetected
CheckRow(h, i) ==
    LET c == checkers[h][i]
        uuid == c.docs[c.idx]
    IN  /\ c.pc = "loop"
        /\ \/ /\ IsSelf(h, uuid) \/ IsInvalid(uuid)
              /\ checkers' = [checkers EXCEPT ![h][i] = NextRow(c)]
              /\ UNCHANGED << errs, total >>
           \/ /\ ~ IsSelf(h, uuid)
              /\ ~ IsInvalid(uuid)
              /\ BucketHas(store, LookupKey(h, uuid))
              /\ checkers' = [checkers EXCEPT ![h][i] = NextRow(c)]
              /\ UNCHANGED << errs, total >>
           \/ /\ ~ IsSelf(h, uuid)
              /\ ~ IsInvalid(uuid)
              /\ ~ BucketHas(store, LookupKey(h, uuid))
              /\ checkers' = [checkers EXCEPT ![h][i] =
                     [c EXCEPT !.pc = "callback", !.fired = Append(@, uuid)]]
              /\ total' = [total EXCEPT ![h][uuid] = Bump(@)]
              /\ UNCHANGED errs
           \/ /\ ~ IsSelf(h, uuid)
              /\ ~ IsInvalid(uuid)
              /\ Used < MaxCalls
              /\ errs' = errs + 1
              /\ checkers' = [checkers EXCEPT ![h][i] = ReturnErr(c, "Get")]
              /\ UNCHANGED total
        /\ UNCHANGED << store, ddoc, sendCloser, checkCloser, senders,
                        stopCalls, panics, healthy, cleaned >>

\* the goroutine logs "Failed to delete heartbeat doc" for the node of the
\* row it is at (logged is the node uuids it has logged that for)
LogFailedDelete(c) == [c EXCEPT !.logged = @ \cup {c.docs[c.idx]}]

\* a loop that returns the error of a failed Delete
DeleteStale_Abort(h, i) ==
    LET c == checkers[h][i]
        key == CleanupKey(h, c.docs[c.idx])
    IN  /\ c.pc = "callback"
        /\ \/ /\ BucketHas(store, key)
              /\ store' = BucketDelete(store, key)
              /\ cleaned' = cleaned \cup {c.docs[c.idx]}
              /\ checkers' = [checkers EXCEPT ![h][i] = NextRow(c)]
              /\ UNCHANGED errs
           \/ /\ ~ BucketHas(store, key)
              /\ checkers' = [checkers EXCEPT ![h][i] =
                     ReturnErr(LogFailedDelete(c), "Delete")]
              /\ UNCHANGED << store, cleaned, errs >>
           \/ /\ BucketHas(store, key)
              /\ Used < MaxCalls
              /\ errs' = errs + 1
              /\ checkers' = [checkers EXCEPT ![h][i] =
                     ReturnErr(LogFailedDelete(c), "Delete")]
              /\ UNCHANGED << store, cleaned >>
        /\ UNCHANGED << ddoc, sendCloser, checkCloser, senders,
                        stopCalls, panics, healthy, total >>

\* the handler has returned: delete the heartbeat doc; a failure is logged
\* and the loop goes on.  Deleting a key that is not there is a failure.
DeleteStale(h, i) ==
    LET c == checkers[h][i]
        uuid == c.docs[c.idx]
        key == CleanupKey(h, uuid)
    IN  /\ c.pc = "callback"
        /\ \/ /\ BucketHas(store, key)
              /\ store' = BucketDelete(store, key)
              /\ cleaned' = cleaned \cup {uuid}
              /\ checkers' = [checkers EXCEPT ![h][i] = NextRow(c)]
              /\ UNCHANGED errs
           \/ /\ ~ BucketHas(store, key)
              /\ checkers' = [checkers EXCEPT ![h][i] = NextRow(LogFailedDelete(c))]
              /\ UNCHANGED << store, cleaned, errs >>
           \/ /\ BucketHas(store, key)
              /\ Used < MaxCalls
              /\ errs' = errs + 1
              /\ checkers' = [checkers EXCEPT ![h][i] = NextRow(LogFailedDelete(c))]
              /\ UNCHANGED << store, cleaned >>
        /\ UNCHANGED << ddoc, sendCloser, checkCloser, senders,
                        stopCalls, panics, healthy, total >>

\* close(h.heartbeatCheckCloser); closing a closed channel panics
StopCheckingHeartbeats(h) ==
    /\ Used < MaxCalls
    /\ stopCalls' = [stopCalls EXCEPT ![h].check = @ + 1]
    /\ IF checkCloser[h] = "open"
       THEN /\ checkCloser' = [checkCloser EXCEPT ![h] = "closed"]
            /\ UNCHANGED panics
       ELSE /\ panics' = [panics EXCEPT ![h] = @ \cup {"check"}]
            /\ UNCHANGED checkCloser
    /\ UNCHANGED << store, ddoc, sendCloser, senders, checkers,
                    errs, healthy, cleaned, total >>

(* --------------------------- the bucket's TTL -------------------------- *)

\* the heartbeaters whose sender writes this key
Owners(key) ==
    { h \in Heartbeaters : key \in { heartbeatDocId(h, nodeUuid(h)),
                                     heartbeatTimeoutDocId(h, nodeUuid(h)) } }

\* a sender goroutine of h has not returned yet
Running(h) == \E i \in DOMAIN senders[h] : senders[h][i].pc # "done"

\* a document written with a TTL > 0 expires
Expire(key) ==
    /\ key \in DOMAIN store
    /\ store[key].ttl > 0
    /\ store' = BucketDelete(store, key)
    /\ healthy' = [h \in Heartbeaters |->
           healthy[h] /\ ~ (h \in Owners(key) /\ Running(h))]
    /\ UNCHANGED << ddoc, sendCloser, checkCloser, senders, checkers,
                    stopCalls, panics, errs, cleaned, total >>

(* --------------------------- specification ---------------------------- *)

Next ==
    \/ \E h \in Heartbeaters, ms \in Intervals : StartSendingHeartbeats(h, ms)
    \/ \E h \in Heartbeaters : StopSendingHeartbeats(h)
    \/ \E h \in Heartbeaters : StartCheckingHeartbeats(h)
    \/ \E h \in Heartbeaters : StopCheckingHeartbeats(h)
    \/ \E h \in Heartbeaters : \E i \in DOMAIN senders[h] :
          \/ SenderTickerFire(h, i)
          \/ SenderSelectCloser(h, i)
          \/ SenderSelectTick(h, i)
          \/ upsertHeartbeatDoc(h, i)
          \/ upsertHeartbeatTimeoutDoc(h, i)
    \/ \E h \in Heartbeaters : \E i \in DOMAIN checkers[h] :
          \/ CheckerTickerFire(h, i)
          \/ CheckerSelectCloser(h, i)
          \/ CheckerSelectTick(h, i)
          \/ viewQueryHeartbeatDocs(h, i)
          \/ CheckRow(h, i)
          \/ DeleteStale(h, i)
    \/ \E key \in DOMAIN store : Expire(key)

Spec == Init /\ [][Next]_vars

\* one heartbeater's senders on their own, with more intervals
NextSend ==
    \/ \E ms \in SendIntervals : StartSendingHeartbeats("h1", ms)
    \/ StopSendingHeartbeats("h1")
    \/ \E i \in DOMAIN senders["h1"] :
          \/ SenderTickerFire("h1", i)
          \/ SenderSelectCloser("h1", i)
          \/ SenderSelectTick("h1", i)
          \/ upsertHeartbeatDoc("h1", i)
          \/ upsertHeartbeatTimeoutDoc("h1", i)
    \/ \E key \in DOMAIN store : Expire(key)

SpecSend == Init /\ [][NextSend]_vars

\* What a heartbeater can find in the bucket it connects to, left there by
\* heartbeaters that ran before: heartbeat docs of node A under both key
\* prefixes, whose timeout docs have lapsed, and a heartbeat doc without a
\* node uuid.
LeftBehind ==
    BucketSet(BucketSet(BucketSet(EmptyBucket,
        invalidDocId, 0, [type |-> docTypeHeartbeat, node_uuid |-> ""]),
        heartbeatDocId("h1", "A"), 0, [type |-> docTypeHeartbeat, node_uuid |-> "A"]),
        heartbeatDocId("h3", "A"), 0, [type |-> docTypeHeartbeat, node_uuid |-> "A"])

\* the buckets a heartbeater starts on: an empty one, or one with all of these
PollBuckets == { EmptyBucket, LeftBehind }

InitPoll ==
    /\ store \in PollBuckets
    /\ ddoc = FALSE
    /\ sendCloser = [h \in Heartbeaters |-> "open"]
    /\ checkCloser = [h \in Heartbeaters |-> "open"]
    /\ senders = [h \in Heartbeaters |-> << >>]
    /\ checkers = [h \in Heartbeaters |-> << >>]
    /\ stopCalls = [h \in Heartbeaters |-> [send |-> 0, check |-> 0]]
    /\ panics = [h \in Heartbeaters |-> {}]
    /\ errs = 0
    /\ healthy = [h \in Heartbeaters |-> TRUE]
    /\ cleaned = {}
    /\ total = [h \in Heartbeaters |-> [u \in NodeUuids |-> 0]]

\* the checkers of node B and the senders of node A, both of group g1/, on
\* such a bucket
NextPoll ==
    \/ StartSendingHeartbeats("h1", 1000)
    \/ StopSendingHeartbeats("h1")
    \/ StartCheckingHeartbeats("h2")
    \/ StopCheckingHeartbeats("h2")
    \/ \E i \in DOMAIN senders["h1"] :
          \/ SenderTickerFire("h1", i)
          \/ SenderSelectCloser("h1", i)
          \/ SenderSelectTick("h1", i)
          \/ upsertHeartbeatDoc("h1", i)
          \/ upsertHeartbeatTimeoutDoc("h1", i)
    \/ \E i \in DOMAIN checkers["h2"] :
          \/ CheckerTickerFire("h2", i)
          \/ CheckerSelectCloser("h2", i)
          \/ CheckerSelectTick("h2", i)
          \/ viewQueryHeartbeatDocs("h2", i)
          \/ CheckRow("h2", i)
          \/ DeleteStale("h2", i)
    \/ \E key \in DOMAIN store : Expire(key)

SpecPoll == InitPoll /\ [][NextPoll]_vars

\* the heartbeater of node B starts on the bucket with all of these
InitStop == InitPoll /\ store = LeftBehind

\* the senders and the checkers of that one heartbeater
NextStop ==
    \/ StartSendingHeartbeats("h2", 1000)
    \/ StopSendingHeartbeats("h2")
    \/ StartCheckingHeartbeats("h2")
    \/ StopCheckingHeartbeats("h2")
    \/ \E i \in DOMAIN senders["h2"] :
          \/ SenderTickerFire("h2", i)
          \/ SenderSelectCloser("h2", i)
          \/ SenderSelectTick("h2", i)
          \/ upsertHeartbeatDoc("h2", i)
          \/ upsertHeartbeatTimeoutDoc("h2", i)
    \/ \E i \in DOMAIN checkers["h2"] :
          \/ CheckerTickerFire("h2", i)
          \/ CheckerSelectCloser("h2", i)
          \/ CheckerSelectTick("h2", i)
          \/ viewQueryHeartbeatDocs("h2", i)
          \/ CheckRow("h2", i)
          \/ DeleteStale("h2", i)
    \/ \E key \in DOMAIN store : Expire(key)

\* Scheduling.  A goroutine that is inside a tick goes on: every bucket
\* call and the handler return (weak fairness of the steps of a tick).  At
\* a select with several ready cases Go chooses one of them uniformly at
\* random, so a goroutine that comes to its select again and again with the
\* closer closed does take the closer case at some time (strong fairness
\* of the closer case).  Nothing is assumed of the tickers or of the callers.
FairStop ==
    \A i \in 1 .. MaxCalls :
        /\ WF_vars(i \in DOMAIN senders["h2"] /\
                (upsertHeartbeatDoc("h2", i) \/ upsertHeartbeatTimeoutDoc("h2", i)))
        /\ SF_vars(i \in DOMAIN senders["h2"] /\ SenderSelectCloser("h2", i))
        /\ WF_vars(i \in DOMAIN checkers["h2"] /\
                (viewQueryHeartbeatDocs("h2", i) \/ CheckRow("h2", i) \/ DeleteStale("h2", i)))
        /\ SF_vars(i \in DOMAIN checkers["h2"] /\ CheckerSelectCloser("h2", i))

SpecStop == InitStop /\ [][NextStop]_vars /\ FairStop

(* ------------------------------ claims -------------------------------- *)

\* how often uuid occurs in a sequence of node uuids
Count(seq, uuid) == Cardinality({ j \in DOMAIN seq : seq[j] = uuid })

\* the step in which checker goroutine i of c calls StaleHeartBeatDetected
Fires(c, i) == checkers[c][i].pc = "loop" /\ checkers'[c][i].pc = "callback"

\* the node uuid that checker goroutine record t is calling back or deleting for
Cur(t) == t.docs[t.idx]

\* a step of checker goroutine i of c
Moves(c, i) ==
    \/ checkers'[c][i].pc # checkers[c][i].pc
    \/ checkers'[c][i].idx # checkers[c][i].idx

\* C1. Self-exclusion: no poll cycle of a checker on node N calls
\* StaleHeartBeatDetected with N's own node uuid, and no step of N's checker
\* removes N's own heartbeat doc from the bucket.
C1_SelfExclusion ==
    /\ [](\A h \in Heartbeaters : \A i \in DOMAIN checkers[h] :
            Count(checkers[h][i].fired, nodeUuid(h)) = 0)
    /\ [][\A h \in Heartbeaters : \A i \in DOMAIN checkers[h] :
            (Moves(h, i) /\ BucketHas(store, heartbeatDocId(h, nodeUuid(h))))
                => BucketHas(store', heartbeatDocId(h, nodeUuid(h)))]_vars

\* C1, its case: a poll cycle has gone past the row of its own node while
\* the bucket holds the node's heartbeat doc and no timeout doc for it.
C1_Witness ==
    \E h \in Heartbeaters : \E i \in DOMAIN checkers[h] :
        /\ \E j \in 1 .. (checkers[h][i].idx - 1) : checkers[h][i].docs[j] = nodeUuid(h)
        /\ BucketHas(store, heartbeatDocId(h, nodeUuid(h)))
        /\ ~ BucketHas(store, heartbeatTimeoutDocId(h, nodeUuid(h)))

\* a sender that has been started and has ticked on schedule ever since:
\* never stopped, no write failed, its timeout doc never lapsed
Normal(h) == senders[h] # << >> /\ sendCloser[h] = "open" /\ healthy[h]

\* C2. Liveness persists under normal ticking: a checker never finds the
\* timeout doc absent, and so never calls back, for a node of its own group
\* whose sender is ticking normally, the node's first send tick included.
C2_NoCallbackWhileTicking ==
    [][\A c \in Heartbeaters : \A i \in DOMAIN checkers[c] :
          Fires(c, i) =>
              ~ \E h \in Heartbeaters :
                    /\ h # c
                    /\ keyPrefix(h) = keyPrefix(c)
                    /\ nodeUuid(h) = Cur(checkers'[c][i])
                    /\ Normal(h)]_vars

\* C3. Exactly one callback per stale peer per cycle: within one poll cycle
\* StaleHeartBeatDetected is not called more than once for the same peer.
C3_OncePerCycle ==
    \A c \in Heartbeaters : \A i \in DOMAIN checkers[c] : \A u \in NodeUuids :
        (u # nodeUuid(c) /\ u # "") => Count(checkers[c][i].fired, u) <= 1

\* C4. No repeated callbacks after cleanup: a poll cycle that started after a
\* checker called back for A and deleted A's heartbeat doc does not call back
\* for A unless a sender of A has made a send tick since.
C4_NoRefireAfterCleanup ==
    \A c \in Heartbeaters : \A i \in DOMAIN checkers[c] :
        checkers[c][i].pc = "callback" => Cur(checkers[c][i]) \notin checkers[c][i].clean0

\* C5. End to end: for a node that alone carries its uuid, whose one sender
\* ran with a whole-second interval and has returned, with no bucket error
\* at all and no lapse of the timeout doc before the sender had returned, a
\* checker of its group calls back for it at most once in total.
C5_OnceInTotal ==
    \A c \in Heartbeaters : \A h \in Heartbeaters :
        ( /\ h # c
          /\ keyPrefix(h) = keyPrefix(c)
          /\ \A g \in Heartbeaters \ {h} : nodeUuid(g) # nodeUuid(h)
          /\ errs = 0
          /\ healthy[h]
          /\ Len(senders[h]) = 1
          /\ senders[h][1].intervalMs % 1000 = 0
          /\ senders[h][1].pc = "done" )
        => total[c][nodeUuid(h)] <= 1

\* C6. TTL arithmetic: a heartbeat doc is written with TTL 0 and a timeout
\* doc with exactly twice the interval of a sender of its node, in seconds.
\* Stated for the intervals of a second and more.
C6_TtlIsTwiceTheInterval ==
    \A key \in DOMAIN store :
        /\ store[key].type = docTypeHeartbeat => store[key].ttl = 0
        /\ store[key].type = docTypeHeartbeatTimeout =>
              \A h \in Owners(key) :
                  (\A i \in DOMAIN senders[h] : senders[h][i].intervalMs >= 1000)
                  => \E i \in DOMAIN senders[h] :
                         store[key].ttl * 1000 = 2 * senders[h][i].intervalMs

\* C7. Sub-second intervals are not truncated to zero: no timeout doc is
\* ever in the bucket with TTL 0, which the bucket takes as no expiry.
C7_NoTimeoutDocWithoutExpiry ==
    \A key \in DOMAIN store :
        store[key].type = docTypeHeartbeatTimeout => store[key].ttl # 0

\* the heartbeaters of the group of c
Group(c) == { h \in Heartbeaters : keyPrefix(h) = keyPrefix(c) }

\* C8. Key-prefix isolation: a checker calls back only for node uuids of its
\* own group, and no step of it removes a document written by a heartbeater
\* of another group.
C8_PrefixIsolation ==
    [][\A c \in Heartbeaters : \A i \in DOMAIN checkers[c] :
          /\ Fires(c, i) =>
                \E h \in Group(c) : nodeUuid(h) = Cur(checkers'[c][i])
          /\ Moves(c, i) =>
                \A key \in DOMAIN store \ DOMAIN store' :
                    Owners(key) \cap Group(c) # {}]_vars

\* C9. Cancellation stops ticking: once the closer is closed, no goroutine
\* of that kind leaves its select through the ticker case.
C9_NoTickAfterStop ==
    [][\A h \in Heartbeaters :
          /\ \A i \in DOMAIN senders[h] :
                (sendCloser[h] = "closed" /\ senders[h][i].pc = "select")
                    => senders'[h][i].pc \in {"select", "done"}
          /\ \A i \in DOMAIN checkers[h] :
                (checkCloser[h] = "closed" /\ checkers[h][i].pc = "select")
                    => checkers'[h][i].pc \in {"select", "done"}]_vars

\* C10. Double-stop fails loudly: the first Stop* call of a kind closes the
\* closer and does not panic; every later one panics, and the panicking
\* call changes neither closer, no goroutine and nothing in the bucket.
C10_DoubleStopPanics ==
    /\ [](\A h \in Heartbeaters :
            /\ stopCalls[h].send >= 1 => sendCloser[h] = "closed"
            /\ stopCalls[h].check >= 1 => checkCloser[h] = "closed"
            /\ stopCalls[h].send >= 2 <=> "send" \in panics[h]
            /\ stopCalls[h].check >= 2 <=> "check" \in panics[h])
    /\ [][\A h \in Heartbeaters :
            ( \/ stopCalls'[h].send > stopCalls[h].send /\ stopCalls[h].send >= 1
              \/ stopCalls'[h].check > stopCalls[h].check /\ stopCalls[h].check >= 1 )
            => /\ panics'[h] # {}
               /\ UNCHANGED << store, ddoc, sendCloser, checkCloser, senders, checkers >>]_vars

\* C10, its case: a second StopSendingHeartbeats has panicked while the
\* heartbeater has a sender goroutine and documents in the bucket.
C10_Witness ==
    \E h \in Heartbeaters :
        /\ "send" \in panics[h]
        /\ senders[h] # << >>
        /\ BucketHas(store, heartbeatDocId(h, nodeUuid(h)))

\* C11. Non-reentrant callback: within one heartbeater no two calls of
\* StaleHeartBeatDetected for the same node overlap: no two checker
\* goroutines of it are inside the handler for the same node uuid at once
\* (pc "callback" is the goroutine between the call and the Delete after it).
C11_NoOverlappingCallbacks ==
    \A c \in Heartbeaters : \A i, j \in DOMAIN checkers[c] :
        ( /\ i # j
          /\ checkers[c][i].pc = "callback"
          /\ checkers[c][j].pc = "callback" )
        => Cur(checkers[c][i]) # Cur(checkers[c][j])

\* C12. Malformed record tolerance: at a row whose node uuid is empty the
\* poll cycle calls nothing back, looks nothing up (so no lookup can fail),
\* deletes nothing, does not end the goroutine or the cycle, and goes on to
\* the next row of the same enumeration; no callback ever carries "".
C12_InvalidDocSkipped ==
    /\ [](\A c \in Heartbeaters : \A i \in DOMAIN checkers[c] :
            Count(checkers[c][i].fired, "") = 0)
    /\ [][\A c \in Heartbeaters : \A i \in DOMAIN checkers[c] :
            ( /\ checkers[c][i].pc = "loop"
              /\ Cur(checkers[c][i]) = ""
              /\ Moves(c, i) )
            => /\ checkers'[c][i] = NextRow(checkers[c][i])
               /\ checkers'[c][i].pc \in {"loop", "select"}
               /\ checkers'[c][i].pc = "loop" <=>
                      checkers[c][i].idx < Len(checkers[c][i].docs)
               /\ checkers'[c][i].fired = checkers[c][i].fired
               /\ checkers'[c][i].err = checkers[c][i].err
               /\ UNCHANGED << store, total, errs >>]_vars

\* C12, its case: a poll cycle has gone past a row without node uuid and
\* has called back for a row after it.
C12_Witness ==
    \E c \in Heartbeaters : \E i \in DOMAIN checkers[c] :
        \E j \in 1 .. (checkers[c][i].idx - 1) :
            /\ checkers[c][i].docs[j] = ""
            /\ checkers[c][i].pc = "callback"
            /\ Len(checkers[c][i].fired) = 1

\* a step of sender goroutine i of h
SenderMoves(h, i) == senders'[h][i].pc # senders[h][i].pc

\* C13. Store errors are non-fatal to the goroutines: a goroutine returns
\* only from its select, through the closer case, with the closer closed by
\* a Stop* call; the step in which a bucket operation of a send tick or of
\* a poll cycle fails leaves the goroutine in its loop: a sender and an
\* aborted poll cycle are back at the select, where the next tick is taken
\* as after a tick without error, and a failed Delete goes on in the cycle.
C13_ErrorsDoNotEndTheTask ==
    [][\A h \in Heartbeaters :
          /\ \A i \in DOMAIN senders[h] :
                /\ (senders[h][i].pc # "done" /\ senders'[h][i].pc = "done")
                      => /\ senders[h][i].pc = "select"
                         /\ sendCloser[h] = "closed"
                         /\ stopCalls[h].send >= 1
                         /\ errs' = errs
                /\ (SenderMoves(h, i) /\ errs' > errs)
                      => /\ senders'[h][i].pc = "select"
                         /\ senders'[h][i].err # "nil"
          /\ \A i \in DOMAIN checkers[h] :
                /\ (checkers[h][i].pc # "done" /\ checkers'[h][i].pc = "done")
                      => /\ checkers[h][i].pc = "select"
                         /\ checkCloser[h] = "closed"
                         /\ stopCalls[h].check >= 1
                         /\ errs' = errs
                /\ (Moves(h, i) /\ errs' > errs)
                      => \/ /\ checkers'[h][i].pc = "select"
                            /\ checkers'[h][i].err # "nil"
                         \/ /\ checkers[h][i].pc = "callback"
                            /\ checkers'[h][i] = NextRow(LogFailedDelete(checkers[h][i]))]_vars

\* C13, its case: a poll cycle is at a row in a goroutine whose previous
\* poll cycle ended with an error, the closer being open.
C13_Witness ==
    \E h \in Heartbeaters : \E i \in DOMAIN checkers[h] :
        /\ checkers[h][i].err # "nil"
        /\ checkers[h][i].pc = "loop"
        /\ checkCloser[h] = "open"

\* C14. Both writes are attempted on every send tick: whatever the first
\* write of a tick returns, the goroutine goes on to the write of the
\* timeout doc.
C14_BothWritesAttempted ==
    [][\A h \in Heartbeaters : \A i \in DOMAIN senders[h] :
          (senders[h][i].pc = "upsertHeartbeatDoc" /\ SenderMoves(h, i))
              => senders'[h][i].pc = "upsertHeartbeatTimeoutDoc"]_vars

\* C15. Unexpected read error aborts the cycle: the step in which the Get
\* of a timeout doc fails with another error than KeyNoEnt ends the poll
\* cycle with that error: no callback and no Delete in it, nothing of the
\* enumeration is kept (a goroutine at its select holds no rows, so no later
\* row is called back or deleted for), what was called back before stands;
\* and a poll cycle starts with the rows of the view as the bucket is then.
C15_GetErrorAbortsCycle ==
    /\ [](\A c \in Heartbeaters : \A i \in DOMAIN checkers[c] :
            checkers[c][i].pc \in {"select", "viewQueryHeartbeatDocs", "done"}
                => checkers[c][i].docs = << >> /\ checkers[c][i].idx = 0)
    /\ [][\A c \in Heartbeaters : \A i \in DOMAIN checkers[c] :
            /\ (checkers[c][i].pc = "loop" /\ Moves(c, i) /\ errs' > errs)
                  => /\ checkers'[c][i].pc = "select"
                     /\ checkers'[c][i].err = "Get"
                     /\ checkers'[c][i].fired = checkers[c][i].fired
                     /\ UNCHANGED << store, total, cleaned >>
            /\ (checkers[c][i].pc = "viewQueryHeartbeatDocs" /\ Moves(c, i) /\ errs' = errs)
                  => /\ checkers'[c][i].docs = ViewRows(store, SortedKeys)
                     /\ checkers'[c][i].fired = << >>
                     /\ checkers'[c][i].idx = IF checkers'[c][i].docs = << >> THEN 0 ELSE 1]_vars

\* C15, its case: a poll cycle is at the first of several rows in a
\* goroutine whose previous poll cycle was ended by a failed Get and which
\* has not called back for any node so far.
C15_Witness ==
    \E c \in Heartbeaters : \E i \in DOMAIN checkers[c] :
        /\ checkers[c][i].err = "Get"
        /\ checkers[c][i].pc = "loop"
        /\ checkers[c][i].idx = 1
        /\ Len(checkers[c][i].docs) >= 2
        /\ \A u \in NodeUuids : total[c][u] = 0

\* C16. Deletion failure is tolerated: the step after the handler call that
\* leaves the bucket as it was (the Delete failed) is logged and goes on to
\* the next row of the cycle, or ends the cycle with nil when there is
\* none; the Delete is not tried again.  In every cycle the rows are all
\* heartbeat docs of the bucket, and at a row of another node whose timeout
\* doc is absent the handler is called unless the Get fails: so the next
\* cycle calls back again while the heartbeat doc is still there.
C16_FailedDeleteTolerated ==
    [][\A c \in Heartbeaters : \A i \in DOMAIN checkers[c] :
          /\ (checkers[c][i].pc = "callback" /\ Moves(c, i) /\ store' = store)
                => /\ Cur(checkers[c][i]) \in checkers'[c][i].logged
                   /\ checkers'[c][i].pc = "loop" <=>
                          checkers[c][i].idx < Len(checkers[c][i].docs)
                   /\ checkers'[c][i].pc = "loop" =>
                          checkers'[c][i].idx = checkers[c][i].idx + 1
                   /\ checkers'[c][i].pc # "loop" =>
                          checkers'[c][i].pc = "select" /\ checkers'[c][i].err = "nil"
          /\ (checkers[c][i].pc = "viewQueryHeartbeatDocs" /\ Moves(c, i) /\ errs' = errs)
                => \A key \in DOMAIN store :
                       store[key].type = docTypeHeartbeat
                           => Count(checkers'[c][i].docs, store[key].node_uuid) >= 1
          /\ ( /\ checkers[c][i].pc = "loop"
               /\ Moves(c, i)
               /\ errs' = errs
               /\ Cur(checkers[c][i]) \notin {nodeUuid(c), ""}
               /\ ~ BucketHas(store, heartbeatTimeoutDocId(c, Cur(checkers[c][i]))) )
                => /\ Fires(c, i)
                   /\ checkers'[c][i].fired =
                          Append(checkers[c][i].fired, Cur(checkers[c][i]))]_vars

\* C16, its case: a goroutine that has logged a failed Delete for a node in
\* an earlier cycle is calling back for that node again, for the first time
\* in this cycle, the node's heartbeat doc still being in the bucket.
C16_Witness ==
    \E c \in Heartbeaters : \E i \in DOMAIN checkers[c] :
        /\ checkers[c][i].pc = "callback"
        /\ Cur(checkers[c][i]) \in checkers[c][i].logged
        /\ Count(checkers[c][i].fired, Cur(checkers[c][i])) = 1
        /\ BucketHas(store, heartbeatDocId(c, Cur(checkers[c][i])))
        /\ errs >= 1

\* C17. Record-count invariant: a node whose sender is ticking normally and
\* whose timeout doc is in the bucket (so a send tick of it has completed
\* both writes) has its heartbeat doc in the bucket.  (A key holds one doc,
\* so there is never more than one of either kind.)
C17_HeartbeatDocWhileTicking ==
    \A h \in Heartbeaters :
        (Normal(h) /\ BucketHas(store, heartbeatTimeoutDocId(h, nodeUuid(h))))
            => BucketHas(store, heartbeatDocId(h, nodeUuid(h)))

\* the documents of bucket s other than those under the keys ks are the
\* same in bucket t
SameExcept(s, t, ks) ==
    /\ DOMAIN s \ ks = DOMAIN t \ ks
    /\ \A key \in DOMAIN s \ ks : t[key] = s[key]

\* C18. Write ownership: a step of a sender goroutine of node N changes at
\* most N's heartbeat doc and N's timeout doc and removes nothing; a step
\* of a checker goroutine creates and modifies nothing, and what it removes
\* is a heartbeat doc, under the key of a node other than its own, for
\* which it has called the handler as the last thing in this cycle; the
\* handler is called only when the timeout doc is absent; a timeout doc
\* leaves the bucket only by its TTL, in a step of no goroutine.
C18_WriteOwnership ==
    [][/\ \A h \in Heartbeaters : \A i \in DOMAIN senders[h] :
            SenderMoves(h, i) =>
                /\ SameExcept(store, store', { heartbeatDocId(h, nodeUuid(h)),
                                               heartbeatTimeoutDocId(h, nodeUuid(h)) })
                /\ DOMAIN store \subseteq DOMAIN store'
       /\ \A c \in Heartbeaters : \A i \in DOMAIN checkers[c] :
            /\ Moves(c, i) =>
                  /\ \A key \in DOMAIN store' :
                        key \in DOMAIN store /\ store'[key] = store[key]
                  /\ \A key \in DOMAIN store \ DOMAIN store' :
                        /\ store[key].type = docTypeHeartbeat
                        /\ checkers[c][i].pc = "callback"
                        /\ key = heartbeatDocId(c, Cur(checkers[c][i]))
                        /\ Cur(checkers[c][i]) # nodeUuid(c)
                        /\ checkers[c][i].fired # << >>
                        /\ checkers[c][i].fired[Len(checkers[c][i].fired)]
                               = Cur(checkers[c][i])
            /\ Fires(c, i) =>
                  ~ BucketHas(store, heartbeatTimeoutDocId(c, Cur(checkers'[c][i])))
       /\ \A key \in DOMAIN store \ DOMAIN store' :
            store[key].type = docTypeHeartbeatTimeout
                => store[key].ttl > 0 /\ UNCHANGED << senders, checkers >>]_vars

\* C18, its case: a poll cycle has called back for a node and deleted its
\* heartbeat doc, and has left in the bucket the timeout doc that the node
\* has written since the lookup.
C18_Witness ==
    \E c \in Heartbeaters : \E i \in DOMAIN checkers[c] :
        /\ checkers[c][i].fired # << >>
        /\ LET u == checkers[c][i].fired[Len(checkers[c][i].fired)]
           IN  /\ u \in cleaned
               /\ ~ BucketHas(store, heartbeatDocId(c, u))
               /\ BucketHas(store, heartbeatTimeoutDocId(c, u))

\* C19. Index setup precedes polling: a checker goroutine exists only when
\* the design doc has been installed; the StartCheckingHeartbeats call that
\* starts one has installed it without error, and the goroutine starts at
\* its select; a failing bucket operation in a step of no goroutine (the
\* index definition) starts no goroutine, installs nothing and calls
\* nothing back; the handler is called only in a step of a checker
\* goroutine, and a poll cycle has rows only with the design doc installed.
C19_IndexBeforePolling ==
    /\ [](\A h \in Heartbeaters :
            /\ checkers[h] # << >> => ddoc
            /\ \A i \in DOMAIN checkers[h] : checkers[h][i].docs # << >> => ddoc)
    /\ [][/\ \A h \in Heartbeaters :
               Len(checkers'[h]) > Len(checkers[h])
                   => /\ ddoc'
                      /\ errs' = errs
                      /\ total' = total
                      /\ checkers'[h][Len(checkers'[h])].pc = "select"
                      /\ ~ checkers'[h][Len(checkers'[h])].tick
          /\ ( /\ errs' > errs
               /\ \A h \in Heartbeaters :
                     /\ \A i \in DOMAIN senders[h] : ~ SenderMoves(h, i)
                     /\ \A i \in DOMAIN checkers[h] : ~ Moves(h, i) )
                => UNCHANGED << checkers, ddoc, total, store >>
          /\ total' # total
                => \E c \in Heartbeaters : \E i \in DOMAIN checkers[c] : Fires(c, i)]_vars

\* C19, its case: the only thing that has happened is StartCheckingHeartbeats
\* calls whose index definition failed, on a bucket that holds the heartbeat
\* doc of a node without its timeout doc: no design doc, no goroutine, no
\* callback.
C19_Witness ==
    /\ errs >= 1
    /\ ~ ddoc
    /\ \A h \in Heartbeaters : senders[h] = << >> /\ checkers[h] = << >>
    /\ BucketHas(store, heartbeatDocId("h1", "A"))
    /\ ~ BucketHas(store, heartbeatTimeoutDocId("h1", "A"))
    /\ \A h \in Heartbeaters : \A u \in NodeUuids : total[h][u] = 0

\* C20. The closer is permanent and shared by the goroutines of its kind,
\* for the heartbeater of node B, whose goroutines are scheduled fairly: a
\* closed closer stays closed; every sender goroutine that exists while the
\* send closer is closed, started before the stop or after it, returns at
\* some time, and so every checker goroutine with the check closer; a
\* goroutine returns only with the closer of its own kind closed.
C20_StopIsPermanent ==
    /\ \A i \in 1 .. MaxCalls :
          /\ (sendCloser["h2"] = "closed" /\ i \in DOMAIN senders["h2"])
                ~> (i \in DOMAIN senders["h2"] /\ senders["h2"][i].pc = "done")
          /\ (checkCloser["h2"] = "closed" /\ i \in DOMAIN checkers["h2"])
                ~> (i \in DOMAIN checkers["h2"] /\ checkers["h2"][i].pc = "done")
    /\ [][/\ sendCloser["h2"] = "closed" => sendCloser'["h2"] = "closed"
          /\ checkCloser["h2"] = "closed" => checkCloser'["h2"] = "closed"
          /\ \A i \in DOMAIN senders["h2"] :
                /\ senders["h2"][i].pc = "done" => senders'["h2"][i].pc = "done"
                /\ senders'["h2"][i].pc = "done" => sendCloser["h2"] = "closed"
          /\ \A i \in DOMAIN checkers["h2"] :
                /\ checkers["h2"][i].pc = "done" => checkers'["h2"][i].pc = "done"
                /\ checkers'["h2"][i].pc = "done" => checkCloser["h2"] = "closed"]_vars

\* C20, its case: StopSendingHeartbeats has been called once, both sender
\* goroutines of the heartbeater have returned, and its checker goroutine,
\* whose closer is open, has not.
C20_Witness ==
    \E h \in Heartbeaters :
        /\ sendCloser[h] = "closed"
        /\ Len(senders[h]) >= 1
        /\ \A i \in DOMAIN senders[h] : senders[h][i].pc = "done"
        /\ checkCloser[h] = "open"
        /\ \E i \in DOMAIN checkers[h] : checkers[h][i].pc = "callback"

====
